---- MODULE Spec2Model ----
(***************************************************************************)
(* Model of scripts/setup/generate_secrets.py: the tool that fills in the  *)
(* missing entries of the Zulip secrets file.  A secrets file is kept as   *)
(* its text (a sequence of tokens: section header, "name = value" text,    *)
(* newline), so that appending and re-reading are modelled by what         *)
(* open(..., 'a').write and configparser.RawConfigParser do to that text.  *)
(***************************************************************************)
EXTENDS Integers, Sequences, FiniteSets, TLC

\* Number of invocations of the tool explored in one behaviour.
MaxRuns == 2

-----------------------------------------------------------------------------
(* Names and fixed data of the script *)

DevFile == "zproject/dev-secrets.conf"
ProdFile == "/etc/zulip/zulip-secrets.conf"

OUTPUT_SETTINGS_FILENAME(development) ==
    IF development THEN DevFile ELSE ProdFile

\* Variant: the last standard token is left out of the list.
AUTOGENERATED_SETTINGS_Short ==
    <<"avatar_salt", "rabbitmq_password", "shared_secret">>

AUTOGENERATED_SETTINGS ==
    <<"avatar_salt", "rabbitmq_password", "shared_secret", "thumbor_key">>

RedisConfCandidates ==
    <<"/etc/redis/zuli-redis.conf", "/etc/redis/zulip-redis.conf">>

LoopbackMemcached == "127.0.0.1:11211"
LoopbackRedis == "127.0.0.1"

\* A Python value that is either a str or None.
PyNone == <<>>
PyStr(s) == <<s>>

\* "%s" % (value,): a str is copied, None is rendered as the text None.
Format(value) == IF value = PyNone THEN "None" ELSE value[1]

-----------------------------------------------------------------------------
(* Text of a secrets file *)

NL == [t |-> "nl", k |-> "", v |-> ""]
HDR == [t |-> "hdr", k |-> "", v |-> ""]
KV(name, text) == [t |-> "kv", k |-> name, v |-> text]

\* The characters a token stands for.
TokText(tok) ==
    IF tok.t = "hdr" THEN "[secrets]"
    ELSE IF tok.t = "kv" THEN tok.k \o " = " \o tok.v
    ELSE "\n"

RECURSIVE JoinText(_)
JoinText(toks) ==
    IF toks = <<>> THEN "" ELSE TokText(Head(toks)) \o JoinText(Tail(toks))

RECURSIVE Join(_)
Join(ls) == IF ls = <<>> THEN <<>> ELSE Head(ls) \o Join(Tail(ls))

\* Split a text at its newlines; an unterminated last line is a line too.
RECURSIVE SplitLines(_, _, _)
SplitLines(text, i, cur) ==
    IF i > Len(text) THEN (IF cur = <<>> THEN <<>> ELSE <<cur>>)
    ELSE IF text[i].t = "nl" THEN <<cur>> \o SplitLines(text, i + 1, <<>>)
    ELSE SplitLines(text, i + 1, Append(cur, text[i]))

EmptyConf == [n \in {} |-> PyNone]

\* RawConfigParser.read (strict): one line at a time.  A blank line is
\* skipped; a line that starts with a section header opens the section (a
\* second one is DuplicateSectionError); any other line is an option of the
\* open section, its value running to the end of the line
\* (MissingSectionHeaderError outside a section, DuplicateOptionError for a
\* repeated name).
RECURSIVE ReadLines(_, _, _)
ReadLines(ls, i, acc) ==
    IF i > Len(ls) \/ ~acc.ok THEN acc
    ELSE LET line == ls[i] IN
         IF line = <<>> THEN ReadLines(ls, i + 1, acc)
         ELSE IF line[1].t = "hdr"
              THEN IF acc.section
                   THEN [acc EXCEPT !.ok = FALSE]
                   ELSE ReadLines(ls, i + 1, [acc EXCEPT !.section = TRUE])
         ELSE IF ~acc.section \/ line[1].k \in DOMAIN acc.conf
              THEN [acc EXCEPT !.ok = FALSE]
         ELSE ReadLines(ls, i + 1,
                  [acc EXCEPT !.conf =
                      (line[1].k :> PyStr(line[1].v \o JoinText(Tail(line)))) @@ @])

\* get_old_conf: an absent or empty file is the empty mapping; otherwise the
\* options of section "secrets" (NoSectionError when the file has none).
\* ok = FALSE stands for the exception the parser raises.
get_old_conf(file) ==
    IF ~file.exists \/ Len(file.text) = 0
    THEN [ok |-> TRUE, conf |-> EmptyConf]
    ELSE LET r == ReadLines(SplitLines(file.text, 1, <<>>), 1,
                            [ok |-> TRUE, section |-> FALSE, conf |-> EmptyConf])
         IN [ok |-> r.ok /\ r.section, conf |-> r.conf]

-----------------------------------------------------------------------------
(* Value generators: the n-th draw from the entropy source *)

random_token(n) == "T" \o ToString(n)
random_string(n) == "S" \o ToString(n)
generate_django_secretkey(n) == "K" \o ToString(n)
uuid4(n) == "U" \o ToString(n)

-----------------------------------------------------------------------------
(* One run of generate_secrets.  The local state of the run is a record:   *)
(*   current_conf, lines      the locals of the same name                  *)
(*   rng                      draws taken from the entropy source          *)
(*   SECRET_KEY               settings.SECRET_KEY of the process           *)
(*   conf_appended            requirepass values appended per redis file   *)
(*   redis_requirepass        password of the running redis server         *)
(*   live_calls               config_set calls issued                      *)
(*   live_result              how the config_set call ended                *)
(*   redis_password           the local of that name (None until drawn)    *)
(*   raised                   an exception is propagating                  *)

Faults == {"none", "ConnectionError", "ResponseError",
           "redis_conf_write_error", "secrets_write_error"}

\* Variant: every secret is taken to be missing.
need_secret_Always(st, name) == name = name

need_secret(st, name) == name \notin DOMAIN st.current_conf

add_secret(st, name, value) ==
    [st EXCEPT !.lines = Append(@, <<KV(name, Format(value)), NL>>),
               !.current_conf = (name :> value) @@ @]

\* if need_secret(name): add_secret(name, <generator>())
EnsureToken(st, name) ==
    IF need_secret(st, name)
    THEN add_secret([st EXCEPT !.rng = @ + 1], name, PyStr(random_token(st.rng)))
    ELSE st

EnsureString(st, name) ==
    IF need_secret(st, name)
    THEN add_secret([st EXCEPT !.rng = @ + 1], name, PyStr(random_string(st.rng)))
    ELSE st

RECURSIVE GenAutogenerated(_, _)
GenAutogenerated(st, i) ==
    IF i > Len(AUTOGENERATED_SETTINGS) THEN st
    ELSE GenAutogenerated(EnsureToken(st, AUTOGENERATED_SETTINGS[i]), i + 1)

\* Variant: the development-only secrets are generated in either mode.
GenDevelopment_Ungated(st, development) ==
    EnsureToken(EnsureToken(st, "initial_password_salt"),
                "local_database_password")

GenDevelopment(st, development) ==
    IF development
    THEN EnsureToken(EnsureToken(st, "initial_password_salt"),
                     "local_database_password")
    ELSE st

GenSecretKey(st) ==
    IF need_secret(st, "secret_key")
    THEN LET secret_key == generate_django_secretkey(st.rng) IN
         [add_secret([st EXCEPT !.rng = @ + 1], "secret_key", PyStr(secret_key))
             EXCEPT !.SECRET_KEY = PyStr(secret_key)]
    ELSE st

GenCamoKey(st) == EnsureString(st, "camo_key")

\* Variant: the password is generated wherever memcached runs.
GenMemcachedPassword_AnyHost(st, development, conf) ==
    IF ~development /\ need_secret(st, "memcached_password")
    THEN EnsureToken(st, "memcached_password")
    ELSE st

GenMemcachedPassword(st, development, conf) ==
    IF ~development /\ need_secret(st, "memcached_password")
       /\ conf.MEMCACHED_LOCATION = LoopbackMemcached
    THEN EnsureToken(st, "memcached_password")
    ELSE st

\* Variant: the loop over the candidates has no break.
FirstExisting_NoBreak(existing) ==
    {RedisConfCandidates[i] : i \in {j \in 1..Len(RedisConfCandidates) :
                                        RedisConfCandidates[j] \in existing}}

\* for filename in [...]: if os.path.exists(filename): append; break
FirstExisting(existing) ==
    LET hits == {i \in 1..Len(RedisConfCandidates) :
                    RedisConfCandidates[i] \in existing}
    IN IF hits = {} THEN {}
       ELSE {RedisConfCandidates[CHOOSE i \in hits : \A j \in hits : i <= j]}

\* Variant: the ConnectionError of the live call is not caught.
GenRedisPassword_Uncaught(st, development, conf, existing, fault) ==
    IF ~development /\ need_secret(st, "redis_password")
       /\ conf.REDIS_HOST = LoopbackRedis
    THEN LET redis_password == random_token(st.rng)
             st1 == [st EXCEPT !.rng = @ + 1,
                               !.redis_password = PyStr(redis_password)]
             targets == FirstExisting(existing)
         IN IF targets # {} /\ fault = "redis_conf_write_error"
            THEN [st1 EXCEPT !.raised = TRUE]
            ELSE LET st2 == [st1 EXCEPT
                              !.conf_appended =
                                  [f \in DOMAIN @ |->
                                      IF f \in targets
                                      THEN Append(@[f], redis_password)
                                      ELSE @[f]],
                              !.live_calls = @ + 1]
                 IN IF fault = "ResponseError"
                    THEN [st2 EXCEPT !.raised = TRUE,
                                     !.live_result = "ResponseError"]
                    ELSE IF fault = "ConnectionError"
                    THEN [st2 EXCEPT !.raised = TRUE,
                                     !.live_result = "ConnectionError"]
                    ELSE add_secret(
                           [st2 EXCEPT !.redis_requirepass = PyStr(redis_password),
                                       !.live_result = "ok"],
                           "redis_password", PyStr(redis_password))
    ELSE st

GenRedisPassword(st, development, conf, existing, fault) ==
    IF ~development /\ need_secret(st, "redis_password")
       /\ conf.REDIS_HOST = LoopbackRedis
    THEN LET redis_password == random_token(st.rng)
             st1 == [st EXCEPT !.rng = @ + 1,
                               !.redis_password = PyStr(redis_password)]
             targets == FirstExisting(existing)
         IN IF targets # {} /\ fault = "redis_conf_write_error"
            THEN [st1 EXCEPT !.raised = TRUE]
            ELSE LET st2 == [st1 EXCEPT
                              !.conf_appended =
                                  [f \in DOMAIN @ |->
                                      IF f \in targets
                                      THEN Append(@[f], redis_password)
                                      ELSE @[f]],
                              !.live_calls = @ + 1]
                 IN IF fault = "ResponseError"
                    THEN [st2 EXCEPT !.raised = TRUE,
                                     !.live_result = "ResponseError"]
                    ELSE IF fault = "ConnectionError"
                    THEN add_secret(
                           [st2 EXCEPT !.live_result = "ConnectionError"],
                           "redis_password", PyStr(redis_password))
                    ELSE add_secret(
                           [st2 EXCEPT !.redis_requirepass = PyStr(redis_password),
                                       !.live_result = "ok"],
                           "redis_password", PyStr(redis_password))
    ELSE st

GenOrgKeys(st) ==
    LET st1 == EnsureString(st, "zulip_org_key") IN
    IF need_secret(st1, "zulip_org_id")
    THEN add_secret([st1 EXCEPT !.rng = @ + 1], "zulip_org_id",
                    PyStr(uuid4(st1.rng)))
    ELSE st1

\* os.getenv returns None for an unset variable
GenPostgresPassword(st, env) ==
    IF need_secret(st, "postgres_password")
    THEN add_secret(st, "postgres_password", env)
    ELSE st

\* Variant: the lines are appended without the leading newline.
AppendToFile_NoLeadingNewline(file, lines) ==
    [exists |-> TRUE, text |-> file.text \o Join(lines)]

\* f.write("\n" + "".join(lines)) on a file opened for append
AppendToFile(file, lines) ==
    [exists |-> TRUE, text |-> file.text \o <<NL>> \o Join(lines)]

\* The whole function.  The result carries the locals at the point where
\* the run ended, the secrets file as the run leaves it, and how it ended.
generate_secrets(development, file, conf, env, existing, world, fault) ==
    LET old == get_old_conf(file)
        st0 == [current_conf |-> old.conf,
                lines |-> IF Cardinality(DOMAIN old.conf) = 0
                          THEN <<(<<HDR, NL>>)>> ELSE <<>>,
                rng |-> world.rng,
                SECRET_KEY |-> PyNone,
                conf_appended |-> world.conf_appended,
                redis_requirepass |-> world.redis_requirepass,
                live_calls |-> 0,
                live_result |-> "none",
                redis_password |-> PyNone,
                raised |-> FALSE]
        st1 == GenMemcachedPassword(
                   GenCamoKey(GenSecretKey(GenDevelopment(
                       GenAutogenerated(st0, 1), development))),
                   development, conf)
        st2 == GenRedisPassword(st1, development, conf, existing, fault)
        st3 == GenPostgresPassword(GenOrgKeys(st2), env)
    IN IF ~old.ok
       THEN [st |-> [st0 EXCEPT !.raised = TRUE, !.lines = <<>>],
             file |-> file, wrote |-> FALSE, outcome |-> "failed"]
       ELSE IF st2.raised
       THEN [st |-> st2, file |-> file, wrote |-> FALSE, outcome |-> "failed"]
       ELSE IF Len(st3.lines) = 0
       THEN [st |-> st3, file |-> file, wrote |-> FALSE, outcome |-> "noop"]
       ELSE IF fault = "secrets_write_error"
       THEN [st |-> [st3 EXCEPT !.raised = TRUE],
             file |-> file, wrote |-> FALSE, outcome |-> "failed"]
       ELSE [st |-> st3, file |-> AppendToFile(file, st3.lines),
             wrote |-> TRUE, outcome |-> "generated"]

-----------------------------------------------------------------------------
(* The machine the tool runs on *)

VARIABLES
    files,              \* the two secrets files
    settings,           \* zproject.settings: MEMCACHED_LOCATION, REDIS_HOST
    environ,            \* os.environ['REMOTE_POSTGRES_PASSWORD'] (or None)
    redis_conf_exists,  \* the candidate redis config files that exist
    conf_appended,      \* requirepass values appended to each of them
    redis_requirepass,  \* password set on the running redis server
    rng,                \* draws taken from the entropy source so far
    hist                \* the runs so far, as observed from outside

vars == <<files, settings, environ, redis_conf_exists, conf_appended,
          redis_requirepass, rng, hist>>

Absent == [exists |-> FALSE, text |-> <<>>]
FileOf(text) == [exists |-> TRUE, text |-> text]

\* Secrets files the tool may find: none, an empty one, a bare section, and
\* a hand-written section without a final newline.
StartFiles ==
    {Absent,
     FileOf(<<>>),
     FileOf(<<HDR, NL>>),
     FileOf(<<HDR, NL, KV("secret_key", "oldkey")>>)}

Init ==
    /\ files \in [{DevFile, ProdFile} -> StartFiles]
    /\ settings \in [MEMCACHED_LOCATION : {LoopbackMemcached, "10.0.0.5:11211"},
                     REDIS_HOST : {LoopbackRedis, "10.0.0.6"}]
    /\ environ \in {PyNone, PyStr(""), PyStr("pgpw")}
    /\ redis_conf_exists \in SUBSET {RedisConfCandidates[i] :
                                        i \in 1..Len(RedisConfCandidates)}
    /\ conf_appended = [f \in {RedisConfCandidates[i] :
                                  i \in 1..Len(RedisConfCandidates)} |-> <<>>]
    /\ redis_requirepass = PyNone
    /\ rng = 1
    /\ hist = <<>>

\* python generate_secrets.py --development | --production
GenerateSecrets(development, fault) ==
    /\ Len(hist) < MaxRuns
    /\ LET fname == OUTPUT_SETTINGS_FILENAME(development)
           world == [rng |-> rng, conf_appended |-> conf_appended,
                     redis_requirepass |-> redis_requirepass]
       IN \E r \in {generate_secrets(development, files[fname], settings,
                                     environ, redis_conf_exists, world, fault)} :
          /\ files' = [files EXCEPT ![fname] = r.file]
          /\ conf_appended' = r.st.conf_appended
          /\ redis_requirepass' = r.st.redis_requirepass
          /\ rng' = r.st.rng
          /\ hist' = Append(hist,
                 [development |-> development,
                  before |-> files[fname],
                  after |-> r.file,
                  old |-> get_old_conf(files[fname]),
                  lines |-> r.st.lines,
                  wrote |-> r.wrote,
                  outcome |-> r.outcome,
                  conf_before |-> conf_appended,
                  conf_after |-> r.st.conf_appended,
                  live_before |-> redis_requirepass,
                  live_after |-> r.st.redis_requirepass,
                  live_calls |-> r.st.live_calls,
                  live_result |-> r.st.live_result,
                  redis_password |-> r.st.redis_password])
    /\ UNCHANGED <<settings, environ, redis_conf_exists>>

Next == \E development \in BOOLEAN, fault \in Faults :
            GenerateSecrets(development, fault)

Spec == Init /\ [][Next]_vars

-----------------------------------------------------------------------------
(* Vocabulary of the properties *)

Runs == {hist[i] : i \in 1..Len(hist)}

Completed(r) == r.outcome \in {"generated", "noop"}

Count(text, name) ==
    Cardinality({i \in 1..Len(text) : text[i].t = "kv" /\ text[i].k = name})

Has(file, name) == Count(file.text, name) > 0

\* The values written for a name in a text.
ValuesOf(text, name) ==
    {text[i].v : i \in {j \in 1..Len(text) :
                           text[j].t = "kv" /\ text[j].k = name}}

NamesIn(text) == {text[i].k : i \in {j \in 1..Len(text) : text[j].t = "kv"}}

HeaderCount(text) == Cardinality({i \in 1..Len(text) : text[i].t = "hdr"})

IsPrefix(a, b) == Len(a) <= Len(b) /\ SubSeq(b, 1, Len(a)) = a

NoFile(file) == ~file.exists \/ file.text = <<>>

\* The run generated a value for the name.
Generated(r, name) == Count(Join(r.lines), name) > 0

-----------------------------------------------------------------------------
(* C1: idempotence.  When two runs in the same mode both complete and the  *)
(* second starts on the file the first one left (settings, environment and *)
(* redis files being the same for both), the second run has no pending     *)
(* line, writes nothing, and leaves the file as the first run left it.     *)
C1_Idempotent ==
    \A i \in 1..Len(hist) : \A j \in (i + 1)..Len(hist) :
        (/\ hist[i].development = hist[j].development
         /\ Completed(hist[i]) /\ Completed(hist[j])
         /\ hist[j].before = hist[i].after)
        => /\ hist[j].lines = <<>>
           /\ ~hist[j].wrote
           /\ hist[j].outcome = "noop"
           /\ hist[j].after = hist[i].after

\* A run that wrote secrets, followed by a completed run in the same mode.
C1_Witness ==
    \E i \in 1..Len(hist) : \E j \in (i + 1)..Len(hist) :
        /\ hist[i].development = hist[j].development
        /\ hist[i].outcome = "generated" /\ Completed(hist[j])
        /\ hist[j].before = hist[i].after
        /\ ~NoFile(hist[i].before)

(* C2: preservation.  In every run, whatever its mode and however it ends, *)
(* every name the loader found before the run is found after it with the   *)
(* same value; the file before the run is a prefix of the file after it;   *)
(* no pending line names a secret that was already present, and no name    *)
(* has two lines in the file.                                              *)
C2_Preservation ==
    \A r \in Runs :
        /\ IsPrefix(r.before.text, r.after.text)
        /\ r.before.exists => r.after.exists
        /\ \A n \in NamesIn(r.after.text) : Count(r.after.text, n) = 1
        /\ r.old.ok =>
              \A n \in DOMAIN r.old.conf :
                  /\ ~Generated(r, n)
                  /\ get_old_conf(r.after).ok
                  /\ n \in DOMAIN get_old_conf(r.after).conf
                  /\ get_old_conf(r.after).conf[n] = r.old.conf[n]

\* A run that found a secret in the file and appended others to it.
C2_Witness ==
    \E r \in Runs :
        /\ r.old.ok /\ DOMAIN r.old.conf # {}
        /\ r.wrote /\ Len(r.after.text) > Len(r.before.text)

DevOnlySecrets == {"initial_password_salt", "local_database_password"}
ProdOnlySecrets == {"memcached_password", "redis_password"}

\* The run left the redis config files and the running server alone.
RedisUntouched(r) ==
    /\ r.conf_after = r.conf_before
    /\ r.live_after = r.live_before
    /\ r.live_calls = 0
    /\ r.live_result = "none"

(* C3: mode gating.  A completed production run on an absent or empty file *)
(* leaves no development-only secret in the file.  A development run adds  *)
(* neither memcached_password nor redis_password, whatever the hosts are,  *)
(* and touches neither the redis config files nor the running server.      *)
C3_ModeGating ==
    \A r \in Runs :
        /\ (~r.development /\ NoFile(r.before) /\ Completed(r))
              => \A n \in DevOnlySecrets :
                     ~Has(r.after, n) /\ ~Generated(r, n)
        /\ r.development
              => /\ \A n \in ProdOnlySecrets :
                        /\ ~Generated(r, n)
                        /\ ~Has(r.before, n) => ~Has(r.after, n)
                 /\ RedisUntouched(r)

\* A production run that filled an empty file, and a development run that
\* wrote secrets while both hosts are loopback.
C3_Witness ==
    /\ \E r \in Runs :
          ~r.development /\ NoFile(r.before) /\ r.outcome = "generated"
    /\ \E r \in Runs : r.development /\ r.outcome = "generated"
    /\ settings.MEMCACHED_LOCATION = LoopbackMemcached
    /\ settings.REDIS_HOST = LoopbackRedis

(* C4: conditional generation.  In a completed production run that found   *)
(* memcached_password (redis_password) absent, the secret is generated and *)
(* in the file afterwards exactly when MEMCACHED_LOCATION (REDIS_HOST) is  *)
(* the loopback address; with another host it stays absent, however the    *)
(* run ends.                                                               *)
C4_ConditionalGeneration ==
    \A r \in Runs :
        (~r.development /\ r.old.ok) =>
            /\ "memcached_password" \notin DOMAIN r.old.conf =>
                  /\ Completed(r) =>
                        /\ Has(r.after, "memcached_password")
                              <=> settings.MEMCACHED_LOCATION = LoopbackMemcached
                        /\ Generated(r, "memcached_password")
                              <=> settings.MEMCACHED_LOCATION = LoopbackMemcached
                  /\ settings.MEMCACHED_LOCATION # LoopbackMemcached
                        => ~Has(r.after, "memcached_password")
            /\ "redis_password" \notin DOMAIN r.old.conf =>
                  /\ Completed(r) =>
                        /\ Has(r.after, "redis_password")
                              <=> settings.REDIS_HOST = LoopbackRedis
                        /\ Generated(r, "redis_password")
                              <=> settings.REDIS_HOST = LoopbackRedis
                  /\ settings.REDIS_HOST # LoopbackRedis
                        => ~Has(r.after, "redis_password") /\ RedisUntouched(r)

\* A completed production run that lacked both passwords, with a loopback
\* cache and a remote redis: one is generated, the other is not.
C4_Witness ==
    \E r \in Runs :
        /\ ~r.development /\ r.old.ok /\ r.outcome = "generated"
        /\ ProdOnlySecrets \cap DOMAIN r.old.conf = {}
        /\ settings.MEMCACHED_LOCATION = LoopbackMemcached
        /\ settings.REDIS_HOST # LoopbackRedis
        /\ Has(r.after, "memcached_password")
        /\ ~Has(r.after, "redis_password")

(* C5: unreachable redis.  When the config_set call of a run ends in a     *)
(* ConnectionError, the run still completes: the later secrets are         *)
(* generated, the file is written, and it holds redis_password with the    *)
(* value the run drew.                                                     *)
C5_ConnectionErrorSwallowed ==
    \A r \in Runs :
        r.live_result = "ConnectionError" =>
            /\ r.outcome = "generated" /\ r.wrote
            /\ r.redis_password # PyNone
            /\ ValuesOf(r.after.text, "redis_password") = {r.redis_password[1]}
            /\ \A n \in {"zulip_org_key", "zulip_org_id", "postgres_password"} :
                   Has(r.after, n)
            /\ r.live_after = r.live_before

\* A production run whose live call met an unreachable server.
C5_Witness ==
    \E r \in Runs :
        /\ ~r.development /\ r.live_result = "ConnectionError"
        /\ ~Has(r.before, "redis_password")
        /\ Has(r.after, "redis_password")

DevelopmentSecrets ==
    {"avatar_salt", "rabbitmq_password", "shared_secret", "thumbor_key",
     "initial_password_salt", "local_database_password", "secret_key",
     "camo_key", "zulip_org_key", "zulip_org_id", "postgres_password"}

(* C6: development end to end.  After a completed development run on an    *)
(* absent or empty file, the names in the file are exactly the eleven      *)
(* development secrets, each on one line, below the only [secrets] header; *)
(* memcached_password and redis_password are not among them.               *)
C6_DevelopmentEndToEnd ==
    \A r \in Runs :
        (r.development /\ NoFile(r.before) /\ Completed(r)) =>
            /\ NamesIn(r.after.text) = DevelopmentSecrets
            /\ \A n \in DevelopmentSecrets : Count(r.after.text, n) = 1
            /\ HeaderCount(r.after.text) = 1
            /\ \A i \in 1..Len(r.after.text) :
                   r.after.text[i].t = "kv" =>
                       \E h \in 1..(i - 1) : r.after.text[h].t = "hdr"
            /\ get_old_conf(r.after).ok
            /\ DOMAIN get_old_conf(r.after).conf = DevelopmentSecrets

\* A development run that created the file.
C6_Witness ==
    \E r \in Runs :
        /\ r.development /\ ~r.before.exists /\ r.outcome = "generated"
        /\ r.after.exists

(* C7: external-database password.  After every completed run the file     *)
(* holds postgres_password, and when the run found it absent the value in  *)
(* the file is the value of REMOTE_POSTGRES_PASSWORD, also when the        *)
(* variable is unset.                                                      *)
C7_PostgresFromEnvironment ==
    \A r \in Runs :
        Completed(r) =>
            /\ Has(r.after, "postgres_password")
            /\ ~Has(r.before, "postgres_password")
                  => \A v \in ValuesOf(r.after.text, "postgres_password") :
                         PyStr(v) = environ

(* C8: redis config file selection.  A run that draws a redis password     *)
(* appends it, once, to the first candidate file that exists and to no     *)
(* other; when no candidate exists nothing is appended or created, the     *)
(* live call is still issued, and the password is recorded when the run    *)
(* completes.  A run that draws no redis password (already present, host   *)
(* not loopback, development) leaves files and server alone.               *)
C8_ConfFileSelection ==
    /\ \A f \in DOMAIN conf_appended :
           f \notin redis_conf_exists => conf_appended[f] = <<>>
    /\ \A r \in Runs :
        /\ r.redis_password # PyNone =>
              /\ \A f \in DOMAIN r.conf_after :
                     \/ r.conf_after[f] = r.conf_before[f]
                     \/ /\ r.conf_after[f] =
                              Append(r.conf_before[f], r.redis_password[1])
                        /\ f \in redis_conf_exists
                        /\ \A i \in 1..Len(RedisConfCandidates) :
                               \A j \in (i + 1)..Len(RedisConfCandidates) :
                                   RedisConfCandidates[j] = f
                                       => RedisConfCandidates[i] \notin redis_conf_exists
              /\ redis_conf_exists = {} =>
                     /\ r.conf_after = r.conf_before
                     /\ r.live_calls = 1
                     /\ Completed(r) =>
                            ValuesOf(r.after.text, "redis_password")
                                = {r.redis_password[1]}
              /\ r.live_calls <= 1
        /\ (r.development \/ ~r.old.ok \/ "redis_password" \in DOMAIN r.old.conf
               \/ settings.REDIS_HOST # LoopbackRedis)
              => r.redis_password = PyNone /\ RedisUntouched(r)

\* A run that drew a redis password while both candidate files exist and
\* appended it to the first of them.
C8_Witness ==
    \E r \in Runs :
        /\ r.redis_password # PyNone
        /\ redis_conf_exists = {RedisConfCandidates[1], RedisConfCandidates[2]}
        /\ r.conf_after[RedisConfCandidates[1]] = <<r.redis_password[1]>>
        /\ r.conf_after[RedisConfCandidates[2]] = <<>>

(* C9: consistency of redis with the stored secret.  At the end of every   *)
(* run, however it ends, a value the run set on the running server or      *)
(* appended to a redis config file is the redis_password of the secrets    *)
(* file; so over all runs at most one requirepass line is appended and the *)
(* live password, once set, is the stored one.                             *)
C9_ServiceConsistency ==
    /\ \A r \in Runs :
           /\ r.live_after # r.live_before
                 => ValuesOf(r.after.text, "redis_password") = {r.live_after[1]}
           /\ \A f \in DOMAIN r.conf_after :
                  r.conf_after[f] # r.conf_before[f]
                      => ValuesOf(r.after.text, "redis_password")
                             = {r.conf_after[f][Len(r.conf_after[f])]}
    /\ \A f \in DOMAIN conf_appended : Len(conf_appended[f]) <= 1
    /\ redis_requirepass # PyNone
          => ValuesOf(files[ProdFile].text, "redis_password")
                 = {redis_requirepass[1]}

(* C10: single section header.  After every completed run on a file the    *)
(* loader accepts, the file has exactly one [secrets] header, above every  *)
(* key line, and loads again; the run writes the header exactly when the   *)
(* file had none.                                                          *)
C10_SingleHeader ==
    \A r \in Runs :
        Completed(r) =>
            /\ HeaderCount(r.after.text) = 1
            /\ \A i \in 1..Len(r.after.text) :
                   r.after.text[i].t = "kv" =>
                       \E h \in 1..(i - 1) : r.after.text[h].t = "hdr"
            /\ get_old_conf(r.after).ok
            /\ HeaderCount(Join(r.lines)) = 1 <=> HeaderCount(r.before.text) = 0

====
